---- MODULE Spec2Model ----
(***************************************************************************)
(* A model of fuisce.database.interface: the SQLAlchemy interface object,  *)
(* the interface selector that wraps an application initializer, the       *)
(* db_transaction decorator and the connection pragma hook.                *)
(*                                                                         *)
(* Objects are numbered in order of construction (an object's number is    *)
(* its identity); None is 0.  The methods of the module are operators on a *)
(* record of the whole program state (the "world"), so that a handler that *)
(* calls several methods is the composition of their operators; an action  *)
(* applies one handler to the current state and stores the result.         *)
(***************************************************************************)
EXTENDS Integers, Sequences, FiniteSets, TLC

\* ---------------------------------------------------------------- bounds
NumApps == 2
NumThreads == 2
MaxIfaces == 2
MaxEngines == 2
MaxSessions == 3
MaxConns == 2
MaxCalls == 2
MaxQueries == 2
\* The bounds of the specification of the interface object alone.
MaxObjIfaces == 2
MaxObjEngines == 1
MaxObjSessions == 1

Apps == 1..NumApps
Threads == 1..NumThreads
FirstApp == CHOOSE a \in Apps : \A b \in Apps : a <= b
\* The thread that imports the module and starts the applications.
MainThread == CHOOSE t \in Threads : \A u \in Threads : t <= u

\* ------------------------------------------------------------- constants
None == 0
NoExc == ""
DIALECT == "sqlite"
DBAPI == "pysqlite"
\* A variant of the registration: the pool's "checkout" event.
LISTENER_EVENT_CHECKOUT == "checkout"
\* The event the module-level listener is registered for.
LISTENER_EVENT == "connect"

VARIABLES
    default_interface, \* SQLAlchemy.default_interface: None or an interface
    ifaces,            \* the interfaces constructed: engine, scoped_session, echo_engine
    engines,           \* the engines created: url, echo
    scopeds,           \* the scoped_session objects: bind, autoflush, registry
    sessions,          \* the Session objects: bind, in_transaction, pending
    conns,             \* the physical connections opened: engine, foreign_keys, ...
    tables,            \* the database urls whose tables have been created
    data,              \* the committed rows, as pairs <<url, row>>
    apps,              \* the applications: testing, db, teardown_funcs
    ctx,               \* per thread, the application whose context is active (or None)
    used,              \* per thread, the sessions obtained in the active context
    torn,              \* the sessions obtained in contexts since torn down
    ncalls,            \* the number of db_transaction calls made
    ret                \* the last call: what was called and how it ended

vars == <<default_interface, ifaces, engines, scopeds, sessions, conns, tables,
          data, apps, ctx, used, torn, ncalls, ret>>

\* -------------------------------------------------------- configuration
\* The keys of app.config that the module reads.
ConfigKeys == {"DATABASE", "DATABASE_INTERFACE_ARGS", "DATABASE_INTERFACE_KWARGS"}

\* An application configuration: the keys it holds, the DATABASE path, the
\* positional arguments (a tuple) and the keyword arguments (a dict, as its
\* set of items) of a test interface.  The value of a key it does not hold
\* is never read.
MakeConfig(keys, path, args, kwargs) ==
    [keys |-> keys, DATABASE |-> path, DATABASE_INTERFACE_ARGS |-> args,
     DATABASE_INTERFACE_KWARGS |-> kwargs]

\* The configuration of an application that sets every key, with no
\* positional argument.
Config(app) ==
    MakeConfig(ConfigKeys, "/db" \o ToString(app), <<>>,
               {<<"echo_engine", app % 2 = 0>>})

\* The configurations an application may be started with.
Configs(app) ==
    {MakeConfig(ConfigKeys, "/db" \o ToString(app), args, kwargs) :
        args \in {<<>>, <<TRUE>>},
        kwargs \in {{}, {<<"echo_engine", FALSE>>}}}
    \cup {MakeConfig(ConfigKeys \ {k}, "/db" \o ToString(app), <<>>, {}) :
            k \in ConfigKeys}

\* ------------------------------------------------------------ the world
World ==
    [default_interface |-> default_interface, ifaces |-> ifaces,
     engines |-> engines, scopeds |-> scopeds, sessions |-> sessions,
     conns |-> conns, tables |-> tables, data |-> data, apps |-> apps,
     config |-> [a \in Apps |-> Config(a)],
     log |-> <<>>, exc |-> NoExc, value |-> None]

Raise(w, e) == [w EXCEPT !.exc = e]
Log(w, step) == [w EXCEPT !.log = Append(@, step)]

\* Python's truth value of default_interface: None is false, an object true.
Truthy(x) == x # None

\* app.config[key]: KeyError when the key is not set.
HasKey(w, app, key) == key \in w.config[app].keys

\* ------------------------------------------------------ connection hook
\* cursor.execute("PRAGMA foreign_keys=ON") on a DBAPI connection.
set_sqlite_pragma(w, c) ==
    [w EXCEPT !.conns[c].foreign_keys = TRUE,
              !.conns[c].pragma_runs = @ + 1]

\* The engine's event dispatch: the listeners of an event run when it fires.
Dispatch(w, ev, c) ==
    IF ev = LISTENER_EVENT THEN set_sqlite_pragma(w, c) ELSE w

\* A new physical connection of engine e: foreign keys are off by default
\* in SQLite; the pool fires "connect" once the connection exists.
Connect(w, e) ==
    LET c == Len(w.conns) + 1
        w1 == [w EXCEPT !.conns = Append(@,
                  [engine |-> e, foreign_keys |-> FALSE, pragma_runs |-> 0,
                   queries |-> 0, fk_at_first_query |-> FALSE, busy |-> FALSE])]
    IN Dispatch(w1, "connect", c)

\* The pool hands out connection c of engine e (None: it opens a new one)
\* and fires "checkout".
Checkout(w, e, c) ==
    LET w1 == IF c = None THEN Connect(w, e) ELSE w
        k == IF c = None THEN Len(w1.conns) ELSE c
        w2 == [w1 EXCEPT !.conns[k].busy = TRUE]
    IN [Dispatch(w2, "checkout", k) EXCEPT !.value = k]

\* A statement executed on connection c.
Execute(w, c) ==
    [w EXCEPT !.conns[c].queries = @ + 1,
              !.conns[c].fk_at_first_query =
                  IF w.conns[c].queries = 0 THEN w.conns[c].foreign_keys ELSE @]

Release(w, c) == [w EXCEPT !.conns[c].busy = FALSE]

\* The idle pooled connections of engine e.
Idle(w, e) ==
    {c \in 1..Len(w.conns) : w.conns[c].engine = e /\ ~w.conns[c].busy}

\* ------------------------------------------------------ interface object
\* SQLAlchemy.__init__
Construct(w, echo_engine) ==
    [w EXCEPT !.ifaces = Append(@,
        [engine |-> None, scoped_session |-> None, echo_engine |-> echo_engine]),
              !.value = Len(w.ifaces) + 1]

\* The call cls(*args, **kwargs): __init__ takes echo_engine alone, by
\* position or by keyword, and defaults it to False; any other call is a
\* TypeError and constructs nothing.
Accepts(args, kwargs) ==
    /\ Len(args) <= 1
    /\ \A p \in kwargs : p[1] = "echo_engine"
    /\ Len(args) = 1 => kwargs = {}

EchoOf(args, kwargs) ==
    IF Len(args) >= 1 THEN args[1]
    ELSE IF kwargs # {} THEN (CHOOSE p \in kwargs : p[1] = "echo_engine")[2]
    ELSE FALSE

ConstructWith(w, args, kwargs) ==
    IF Accepts(args, kwargs) THEN Construct(w, EchoOf(args, kwargs))
    ELSE Raise(w, "TypeError")

\* The else branch of the wrapper: the two configuration keys are read, the
\* first first, then the interface is constructed and attached.
construct_test_interface(w, app) ==
    IF ~HasKey(w, app, "DATABASE_INTERFACE_ARGS")
       \/ ~HasKey(w, app, "DATABASE_INTERFACE_KWARGS")
    THEN Raise(w, "KeyError")
    ELSE LET w1 == ConstructWith(w,
                     w.config[app].DATABASE_INTERFACE_ARGS,
                     w.config[app].DATABASE_INTERFACE_KWARGS)
         IN IF w1.exc # NoExc THEN w1
            ELSE Log([w1 EXCEPT !.apps[app].db = w1.value], "attach")

db_url(db_path) == DIALECT \o "+" \o DBAPI \o ":///" \o db_path

\* SQLAlchemy.setup_engine; echo_arg is "None", "True" or "False".
setup_engine(w, self, db_path, echo_arg) ==
    LET echo == IF echo_arg = "None" THEN w.ifaces[self].echo_engine
                ELSE echo_arg = "True"
        e == Len(w.engines) + 1
        s == Len(w.scopeds) + 1
    IN [Log(w, "setup_engine") EXCEPT
          !.engines = Append(@, [url |-> db_url(db_path), echo |-> echo]),
          !.scopeds = Append(@, [bind |-> e, autoflush |-> FALSE,
                                 registry |-> [t \in Threads |-> None]]),
          !.ifaces[self].engine = e,
          !.ifaces[self].scoped_session = s]

\* A variant of the key that is the same for every thread.
ScopeKeyGlobal(t) == MainThread

\* The key of the scoped_session registry: scoped_session is built without a
\* scopefunc, so the registry is thread-local.
ScopeKey(t) == t

\* scoped_session.__call__ on thread t: the thread's session, made on demand.
Registry(w, s, t) ==
    LET k == ScopeKey(t) IN
    IF w.scopeds[s].registry[k] # None
    THEN [w EXCEPT !.value = w.scopeds[s].registry[k]]
    ELSE LET n == Len(w.sessions) + 1 IN
         [w EXCEPT !.sessions = Append(@,
                      [bind |-> w.scopeds[s].bind, in_transaction |-> FALSE,
                       pending |-> {}]),
                   !.scopeds[s].registry[k] = n,
                   !.value = n]

\* A variant of session that returns None when there is no session factory.
session_or_none(w, self, t) ==
    IF w.ifaces[self].scoped_session = None
    THEN w
    ELSE Registry(w, w.ifaces[self].scoped_session, t)

\* SQLAlchemy.session (property), read on thread t.
session(w, self, t) ==
    IF w.ifaces[self].scoped_session = None
    THEN Raise(w, "TypeError")
    ELSE Registry(w, w.ifaces[self].scoped_session, t)

\* Session.close: the transaction in progress is rolled back.
SessionClose(w, n) ==
    [w EXCEPT !.sessions[n].in_transaction = FALSE,
              !.sessions[n].pending = {}]

\* A variant of remove that closes the session and keeps it registered.
RemoveKeep(w, s, t) ==
    LET k == ScopeKey(t)
        n == w.scopeds[s].registry[k]
    IN IF n = None THEN w ELSE SessionClose(w, n)

\* scoped_session.remove on thread t: close the thread's session, if any,
\* and discard it from the registry.
Remove(w, s, t) ==
    LET k == ScopeKey(t)
        n == w.scopeds[s].registry[k]
    IN IF n = None THEN w
       ELSE [SessionClose(w, n) EXCEPT !.scopeds[s].registry[k] = None]

\* A variant of close without the test for a session factory.
close_unguarded(w, self, t, exception) ==
    IF w.ifaces[self].scoped_session # None
    THEN Remove(Log(w, "close"), w.ifaces[self].scoped_session, t)
    ELSE Raise(Log(w, "close"), "AttributeError")

\* SQLAlchemy.close, called on thread t.
close(w, self, t, exception) ==
    IF w.ifaces[self].scoped_session # None
    THEN Remove(Log(w, "close"), w.ifaces[self].scoped_session, t)
    ELSE Log(w, "close")

\* SQLAlchemy.create_tables: metadata.create_all on the interface's engine,
\* over a connection of the engine's pool (c: the pooled connection the pool
\* hands out, None for a new one).
create_tables(w, self, c) ==
    LET e == w.ifaces[self].engine IN
    IF e = None THEN Raise(w, "UnboundExecutionError")
    ELSE LET w1 == Checkout(Log(w, "create_tables"), e, c)
             k == w1.value
         IN [Release(Execute(w1, k), k) EXCEPT
                !.tables = @ \cup {w.engines[e].url}]

\* SQLAlchemy.initialize
initialize(w, self, app, c) == create_tables(Log(w, "initialize"), self, c)

\* SQLAlchemy.create_default_interface
create_default_interface(w, echo_engine) ==
    LET w1 == Construct(w, echo_engine)
    IN [w1 EXCEPT !.default_interface = w1.value]

\* ---------------------------------------------------- interface selector
\* A variant of the choice that installs a default interface when none is.
select_interface_lazy(w, app) ==
    IF ~w.apps[app].testing
    THEN LET w1 == IF Truthy(w.default_interface) THEN w
                   ELSE create_default_interface(w, FALSE)
         IN Log([w1 EXCEPT !.apps[app].db = w1.default_interface], "attach")
    ELSE construct_test_interface(w, app)

\* A variant of the choice that keeps the interface a test application has.
select_interface_cached(w, app) ==
    IF ~w.apps[app].testing
    THEN IF ~Truthy(w.default_interface)
         THEN Raise(w, "RuntimeError")
         ELSE Log([w EXCEPT !.apps[app].db = w.default_interface], "attach")
    ELSE IF w.apps[app].db # None THEN Log(w, "attach")
         ELSE construct_test_interface(w, app)

\* The choice of the interface (the if/else that opens the wrapper).
select_interface(w, app) ==
    IF ~w.apps[app].testing
    THEN IF ~Truthy(w.default_interface)
         THEN Raise(w, "RuntimeError")
         ELSE Log([w EXCEPT !.apps[app].db = w.default_interface], "attach")
    ELSE construct_test_interface(w, app)

\* The wrapped initializer: the application's own code, which may raise.
init_app_func(w, app, raises) ==
    IF raises THEN Raise(Log(w, "init_app_func"), "InitError")
    ELSE Log(w, "init_app_func")

\* Flask.teardown_appcontext(app.db.close)
teardown_appcontext(w, app, f) ==
    [Log(w, "teardown_appcontext") EXCEPT
        !.apps[app].teardown_funcs = Append(@, f)]

\* A variant of the end of the wrapper that initializes in every mode.
finish_init_always(w, app) == initialize(w, w.apps[app].db, app, None)

\* The end of the wrapper: what follows the registration of the hook.
finish_init(w, app) ==
    IF w.apps[app].testing
    THEN initialize(w, w.apps[app].db, app, None)
    ELSE w

\* interface_selector's wrapper(app)
wrapper(w, app, raises) ==
    LET w1 == select_interface(w, app) IN
    IF w1.exc # NoExc THEN w1
    ELSE IF ~HasKey(w1, app, "DATABASE") THEN Raise(w1, "KeyError")
    ELSE LET w2 == setup_engine(w1, w1.apps[app].db,
                                w1.config[app].DATABASE, "None")
             w3 == init_app_func(w2, app, raises)
         IN IF w3.exc # NoExc THEN w3
            ELSE finish_init(teardown_appcontext(w3, app, w3.apps[app].db), app)

\* ------------------------------------------------- transaction decorator
\* Session.begin(): a transaction is begun, unless one already is.
begin(w, n) ==
    IF w.sessions[n].in_transaction
    THEN Raise(w, "InvalidRequestError")
    ELSE Log([w EXCEPT !.sessions[n].in_transaction = TRUE], "begin")

\* Session.commit(): the pending rows reach the database of the session's engine.
commit(w, n) ==
    LET url == w.engines[w.sessions[n].bind].url IN
    [Log(w, "commit") EXCEPT
        !.data = @ \cup {<<url, r>> : r \in w.sessions[n].pending},
        !.sessions[n].pending = {},
        !.sessions[n].in_transaction = FALSE]

\* Session.rollback(): the pending rows are dropped.
rollback(w, n) ==
    [Log(w, "rollback") EXCEPT
        !.sessions[n].pending = {},
        !.sessions[n].in_transaction = FALSE]

\* A variant of the exit that commits however the block ended.
exit_begin_commit(w, n) == commit(w, n)

\* The exit of the "with session.begin()" block: commit when the block ended
\* normally, roll back and let the exception through when it raised.
exit_begin(w, n) ==
    IF w.exc = NoExc THEN commit(w, n) ELSE rollback(w, n)

\* The wrapped function: it writes rows through the session, then returns
\* body.result, raises, or calls another db_transaction function on the same
\* session (whose begin() finds the transaction already begun).
func(w, n, body) ==
    LET w1 == [Log(w, "func") EXCEPT !.sessions[n].pending = @ \cup body.rows,
                                     !.value = None]
    IN CASE body.kind = "return" -> [w1 EXCEPT !.value = body.result]
         [] body.kind = "raise" -> Raise(w1, "BodyError")
         [] OTHER -> begin(w1, n)

\* db_transaction's wrapper, called on thread t while the context of
\* application app (None: no context) is active.
db_transaction(w, app, t, body) ==
    IF app = None THEN Raise(w, "RuntimeError")
    ELSE LET w1 == session(w, w.apps[app].db, t) IN
         IF w1.exc # NoExc THEN w1
         ELSE LET n == w1.value
                  w2 == begin(w1, n)
              IN IF w2.exc # NoExc THEN [w2 EXCEPT !.value = None]
                 ELSE exit_begin(func(w2, n, body), n)

\* A statement executed directly on the session: it begins a transaction
\* implicitly and leaves it open.
autobegin(w, n) == [w EXCEPT !.sessions[n].in_transaction = TRUE]

\* ------------------------------------------------- application contexts
\* The teardown functions of a context run in reverse order of registration,
\* on the thread of the context.
RECURSIVE do_teardown_appcontext(_, _, _, _, _)
do_teardown_appcontext(w, fs, i, t, exception) ==
    IF i = 0 THEN w
    ELSE do_teardown_appcontext(close(w, fs[i], t, exception), fs, i - 1, t,
                                exception)

\* ------------------------------------------------------------- states
Call(op, app, self, thread, arg) ==
    [op |-> op, app |-> app, self |-> self, thread |-> thread, arg |-> arg]

NoCall == Call("", None, None, None, None)

\* The state after a call that ended in world w.
Store(w, call) ==
    /\ default_interface' = w.default_interface
    /\ ifaces' = w.ifaces
    /\ engines' = w.engines
    /\ scopeds' = w.scopeds
    /\ sessions' = w.sessions
    /\ conns' = w.conns
    /\ tables' = w.tables
    /\ data' = w.data
    /\ apps' = w.apps
    /\ ret' = [call |-> call, exc |-> w.exc, value |-> w.value, log |-> w.log]

\* Application a runs in test mode.
Testing(a) == a % 2 = 0

\* The program before anything is constructed.
InitWorld ==
    [default_interface |-> None, ifaces |-> <<>>, engines |-> <<>>,
     scopeds |-> <<>>, sessions |-> <<>>, conns |-> <<>>, tables |-> {},
     data |-> {},
     apps |-> [a \in Apps |-> [testing |-> Testing(a), db |-> None,
                               teardown_funcs |-> <<>>]],
     config |-> [a \in Apps |-> Config(a)],
     log |-> <<>>, exc |-> NoExc, value |-> None]

\* The program once the default interface is installed and every
\* application has been initialized through the selector.
RECURSIVE StartApps(_, _)
StartApps(w, a) ==
    IF a > NumApps THEN w ELSE StartApps(wrapper(w, a, FALSE), a + 1)

StartedWorld == StartApps(create_default_interface(InitWorld, FALSE), 1)

InitFrom(w) ==
    /\ default_interface = w.default_interface
    /\ ifaces = w.ifaces
    /\ engines = w.engines
    /\ scopeds = w.scopeds
    /\ sessions = w.sessions
    /\ conns = w.conns
    /\ tables = w.tables
    /\ data = w.data
    /\ apps = w.apps
    /\ ctx = [t \in Threads |-> None]
    /\ used = [t \in Threads |-> {}]
    /\ torn = {}
    /\ ncalls = 0
    /\ ret = [call |-> NoCall, exc |-> NoExc, value |-> None, log |-> <<>>]

Init == InitFrom(InitWorld)

InitStarted == InitFrom(StartedWorld)

\* ------------------------------------------------------------- actions
\* SQLAlchemy.create_default_interface(echo_engine)
CreateDefaultInterface ==
    /\ Len(ifaces) < MaxIfaces
    /\ \E echo \in BOOLEAN :
          Store(create_default_interface(World, echo),
                Call("create_default_interface", None, None, None, None))
    /\ UNCHANGED <<ctx, used, torn, ncalls>>

\* The wrapped application initializer is called on application app, whose
\* configuration is config at that time.
InitApp ==
    /\ Len(engines) < MaxEngines
    /\ \E app \in Apps, raises \in BOOLEAN :
          \E config \in Configs(app) :
             /\ apps[app].testing => Len(ifaces) < MaxIfaces
             /\ Store(wrapper([World EXCEPT !.config[app] = config],
                              app, raises),
                      Call("wrapper", app, None, None,
                           [config |-> config, raises |-> raises]))
    /\ UNCHANGED <<ctx, used, torn, ncalls>>

\* create_default_interface, within the bounds of the interface object's
\* specification.
InstallDefault ==
    /\ Len(ifaces) < MaxObjIfaces
    /\ CreateDefaultInterface

\* SQLAlchemy(echo_engine): an interface constructed directly.
NewInterface ==
    /\ Len(ifaces) < MaxObjIfaces
    /\ \E echo \in BOOLEAN :
          Store(Construct(World, echo), Call("__init__", None, None, None, echo))
    /\ UNCHANGED <<ctx, used, torn, ncalls>>

\* interface.setup_engine(db_path, echo_engine), with the path of the first
\* application.
SetupEngine ==
    /\ Len(engines) < MaxObjEngines
    /\ \E self \in 1..Len(ifaces), app \in {FirstApp},
          echo_arg \in {"None", "True", "False"} :
          Store(setup_engine(World, self, Config(app).DATABASE, echo_arg),
                Call("setup_engine", app, self, None, echo_arg))
    /\ UNCHANGED <<ctx, used, torn, ncalls>>

\* interface.session is read on the main thread, outside any request.
ReadSession ==
    /\ \E self \in 1..Len(ifaces), t \in {MainThread} :
          /\ Len(session(World, self, t).sessions) <= MaxObjSessions
          /\ Store(session(World, self, t), Call("session", None, self, t, None))
    /\ UNCHANGED <<ctx, used, torn, ncalls>>

\* interface.close(exception) is called on the main thread.
Close ==
    /\ \E self \in 1..Len(ifaces), t \in {MainThread},
          exception \in {"None", "Error"} :
          Store(close(World, self, t, exception),
                Call("close", None, self, t, exception))
    /\ UNCHANGED <<ctx, used, torn, ncalls>>

\* A request begins: a thread t of T pushes a context of application app.
Push(T) ==
    /\ \E t \in T, app \in Apps :
          /\ ctx[t] = None
          /\ ctx' = [ctx EXCEPT ![t] = app]
          /\ Store(World, Call("push", app, None, t, None))
    /\ UNCHANGED <<used, torn, ncalls>>

\* Inside a request, the handler reads current_app.db.session.
UseSession ==
    /\ \E t \in Threads :
          /\ ctx[t] # None
          /\ LET w == session(World, apps[ctx[t]].db, t) IN
                /\ Len(w.sessions) <= MaxSessions
                /\ Store(w, Call("session", ctx[t], apps[ctx[t]].db, t, None))
                /\ used' = [used EXCEPT ![t] = @ \cup {w.value}]
    /\ UNCHANGED <<ctx, torn, ncalls>>

\* A request ends: the context of a thread t of T is popped and torn down.
Pop(T) ==
    /\ \E t \in T, exception \in {"None", "Error"} :
          /\ ctx[t] # None
          /\ LET fs == apps[ctx[t]].teardown_funcs IN
                Store(do_teardown_appcontext(World, fs, Len(fs), t, exception),
                      Call("pop", ctx[t], None, t, exception))
          /\ ctx' = [ctx EXCEPT ![t] = None]
          /\ torn' = torn \cup used[t]
          /\ used' = [used EXCEPT ![t] = {}]
    /\ UNCHANGED ncalls

\* Requests on any thread.
PushContext == Push(Threads)

PopContext == Pop(Threads)

\* Requests served one after the other on one thread.
BeginRequest == Push({MainThread})

EndRequest == Pop({MainThread})

\* The bodies a wrapped function may have, for call number k.
Bodies(k) ==
    [kind : {"return", "raise", "nested"},
     rows : {{}, {<<k, 1>>}, {<<k, 1>>, <<k, 2>>}},
     result : {k}]

\* The session a handler on thread t gets from current_app.db.session.
CurrentSession(w, t) == session(w, w.apps[ctx[t]].db, t).value

\* A db_transaction function is called by the handler of a request, or
\* outside any request.
Transaction ==
    /\ ncalls < MaxCalls
    /\ \E t \in {MainThread}, body \in Bodies(ncalls + 1) :
          /\ LET w == db_transaction(World, ctx[t], t, body) IN
                /\ Len(w.sessions) <= MaxSessions
                /\ Store(w, Call("db_transaction", ctx[t], None, t, body))
                /\ used' = [used EXCEPT ![t] =
                              IF ctx[t] # None
                              THEN @ \cup {CurrentSession(World, t)} ELSE @]
    /\ ncalls' = ncalls + 1
    /\ UNCHANGED <<ctx, torn>>

\* Inside a request, the handler runs a statement on current_app.db.session
\* outside any db_transaction function.
Query ==
    /\ \E t \in {MainThread} :
          /\ ctx[t] # None
          /\ LET w == session(World, apps[ctx[t]].db, t) IN
                /\ Len(w.sessions) <= MaxSessions
                /\ Store(autobegin(w, w.value),
                         Call("execute", ctx[t], apps[ctx[t]].db, t, None))
                /\ used' = [used EXCEPT ![t] = @ \cup {w.value}]
    /\ UNCHANGED <<ctx, torn, ncalls>>

\* The pool of engine e hands out a connection: an idle one, or a new one.
PoolCheckout ==
    /\ \E e \in 1..Len(engines) :
          \E c \in Idle(World, e) \cup {None} :
             /\ Len(Checkout(World, e, c).conns) <= MaxConns
             /\ Store(Checkout(World, e, c), Call("checkout", None, e, None, c))
    /\ UNCHANGED <<ctx, used, torn, ncalls>>

\* A statement is executed on a connection that is checked out.
ExecuteQuery ==
    /\ \E c \in 1..Len(conns) :
          /\ conns[c].busy
          /\ conns[c].queries < MaxQueries
          /\ Store(Execute(World, c), Call("execute", None, None, None, c))
    /\ UNCHANGED <<ctx, used, torn, ncalls>>

\* A connection is returned to its pool.
ReleaseConn ==
    /\ \E c \in 1..Len(conns) :
          /\ conns[c].busy
          /\ Store(Release(World, c), Call("release", None, None, None, c))
    /\ UNCHANGED <<ctx, used, torn, ncalls>>

\* interface.create_tables(), as the command line does outside the selector.
CreateTables ==
    /\ \E self \in 1..Len(ifaces) :
          \E c \in (IF ifaces[self].engine = None THEN {}
                    ELSE Idle(World, ifaces[self].engine)) \cup {None} :
             LET w == create_tables(World, self, c) IN
                /\ Len(w.conns) <= MaxConns
                /\ \A k \in 1..Len(w.conns) : w.conns[k].queries <= MaxQueries
                /\ Store(w, Call("create_tables", None, self, None, c))
    /\ UNCHANGED <<ctx, used, torn, ncalls>>

Next ==
    \/ CreateDefaultInterface
    \/ InitApp

Spec == Init /\ [][Next]_vars

NextObj ==
    \/ InstallDefault
    \/ NewInterface
    \/ SetupEngine
    \/ ReadSession
    \/ Close

SpecObj == Init /\ [][NextObj]_vars

NextReq ==
    \/ PushContext
    \/ UseSession
    \/ PopContext

SpecReq == InitStarted /\ [][NextReq]_vars

NextTxn ==
    \/ BeginRequest
    \/ EndRequest
    \/ Transaction
    \/ Query

SpecTxn == InitStarted /\ [][NextTxn]_vars

NextConn ==
    \/ PoolCheckout
    \/ ExecuteQuery
    \/ ReleaseConn
    \/ CreateTables

SpecConn == InitStarted /\ [][NextConn]_vars

\* ------------------------------------------------------------ properties
WrapperOn(r, app) == r.call.op = "wrapper" /\ r.call.app = app

\* C1: a selector invocation on a non-test application while no default
\* interface is installed raises RuntimeError at once: nothing is attached,
\* no engine is set up, the initializer is not called, no hook is registered.
C1_NoDefaultRaises ==
    [][\A app \in Apps :
          (WrapperOn(ret', app) /\ ~apps[app].testing /\ default_interface = None)
          => /\ ret'.exc = "RuntimeError"
             /\ ret'.log = <<>>
             /\ apps[app].db = None
             /\ apps' = apps
             /\ ifaces' = ifaces
             /\ engines' = engines
             /\ scopeds' = scopeds
             /\ default_interface' = None]_vars

C1_Witness ==
    /\ ret.call.op = "wrapper"
    /\ ~apps[ret.call.app].testing
    /\ default_interface = None
    /\ ret.exc = "RuntimeError"

\* C4: every application initialized in non-test mode holds, as app.db, the
\* one interface that SQLAlchemy.default_interface holds.
C4_SingleDefault ==
    \A app \in Apps :
        (~apps[app].testing /\ apps[app].db # None)
        => apps[app].db = default_interface

\* The interface that a selector invocation on app attached is one the
\* invocation constructed from the configured arguments: not the default
\* interface, not an interface that existed before.
AttachedFresh(app) ==
    LET config == ret'.call.arg.config IN
    /\ apps'[app].db = Len(ifaces) + 1
    /\ Len(ifaces') = Len(ifaces) + 1
    /\ apps'[app].db # default_interface'
    /\ \A b \in Apps : apps[b].db # apps'[app].db
    /\ ifaces'[apps'[app].db].echo_engine =
           EchoOf(config.DATABASE_INTERFACE_ARGS,
                  config.DATABASE_INTERFACE_KWARGS)

\* The configuration app is started with lets the constructor be called.
Constructible(app) ==
    LET config == ret'.call.arg.config IN
    /\ "DATABASE_INTERFACE_ARGS" \in config.keys
    /\ "DATABASE_INTERFACE_KWARGS" \in config.keys
    /\ Len(config.DATABASE_INTERFACE_ARGS) <= 1
    /\ Len(config.DATABASE_INTERFACE_ARGS) = 1
          => config.DATABASE_INTERFACE_KWARGS = {}

\* C7, as stated: every selector invocation on a test application attaches
\* an interface constructed by that invocation from the configured arguments
\* (not the default interface, not an interface that existed before) and
\* leaves the default interface as it was.
C7_EveryInvocationAttaches ==
    [][\A app \in Apps :
          (WrapperOn(ret', app) /\ apps[app].testing)
          => /\ AttachedFresh(app)
             /\ default_interface' = default_interface]_vars

\* C7, amended: a selector invocation on a test application whose
\* configuration sets both argument keys to arguments the constructor accepts
\* attaches an interface constructed by that invocation (not the default
\* interface, not an interface that existed before); with any other
\* configuration it raises KeyError or TypeError, constructs nothing and
\* attaches nothing; the default interface is left as it was in both cases.
C7_TestInterfaceFresh ==
    [][\A app \in Apps :
          (WrapperOn(ret', app) /\ apps[app].testing)
          => /\ default_interface' = default_interface
             /\ Constructible(app) => AttachedFresh(app)
             /\ ~Constructible(app)
                => /\ ret'.exc \in {"KeyError", "TypeError"}
                   /\ ret'.log = <<>>
                   /\ ifaces' = ifaces
                   /\ apps'[app].db = apps[app].db]_vars

C7_Witness ==
    /\ ret.call.op = "wrapper"
    /\ apps[ret.call.app].testing
    /\ default_interface # None
    /\ \E b \in Apps : b # ret.call.app /\ apps[b].db = default_interface
    /\ apps[ret.call.app].db = Len(ifaces)
    /\ apps[ret.call.app].db > default_interface

\* The steps of a successful selector invocation, in order.
StepsOf(testing) ==
    <<"attach", "setup_engine", "init_app_func", "teardown_appcontext">>
    \o (IF testing THEN <<"initialize", "create_tables">> ELSE <<>>)

\* C8: a successful selector invocation attaches the interface, sets up the
\* engine from the configured DATABASE path, calls the initializer, registers
\* the hook that closes the session, in that order, and then creates the
\* tables if and only if the application is in test mode.
C8_StepsInOrder ==
    \A app \in Apps :
        (WrapperOn(ret, app) /\ ret.exc = NoExc)
        => LET db == apps[app].db
               url == engines[ifaces[db].engine].url
           IN /\ ret.log = StepsOf(apps[app].testing)
              /\ url = db_url(ret.call.arg.config.DATABASE)
              /\ ifaces[db].engine = Len(engines)
              /\ apps[app].teardown_funcs # <<>>
              /\ apps[app].teardown_funcs[Len(apps[app].teardown_funcs)] = db
              /\ apps[app].testing => url \in tables

C8_Witness ==
    /\ ret.call.op = "wrapper"
    /\ ret.exc = NoExc
    /\ ~apps[ret.call.app].testing
    /\ ret.log = <<"attach", "setup_engine", "init_app_func", "teardown_appcontext">>
    /\ \E b \in Apps :
          /\ apps[b].testing
          /\ apps[b].db # None
          /\ ifaces[apps[b].db].engine # None
          /\ engines[ifaces[apps[b].db].engine].url \in tables

\* C5: reading session on an interface whose engine was never set up raises
\* (TypeError) and yields no session, default interface or not; once
\* setup_engine has been called the read yields a session.
C5_SessionNeedsSetup ==
    [][\A self \in 1..Len(ifaces) :
          (ret'.call.op = "session" /\ ret'.call.self = self)
          => /\ ifaces[self].scoped_session = None
                => /\ ret'.exc = "TypeError"
                   /\ ret'.value = None
                   /\ sessions' = sessions
             /\ ifaces[self].scoped_session # None
                => /\ ret'.exc = NoExc
                   /\ ret'.value \in 1..Len(sessions')
                   /\ scopeds'[ifaces[self].scoped_session]
                         .registry[ret'.call.thread] = ret'.value]_vars

C5_Witness ==
    /\ ret.call.op = "session"
    /\ ret.exc = "TypeError"
    /\ default_interface # None
    /\ ret.call.self # default_interface
    /\ \E i \in 1..Len(ifaces), t \in Threads :
          /\ ifaces[i].scoped_session # None
          /\ scopeds[ifaces[i].scoped_session].registry[t] # None

\* C6: close on an interface that has no session factory raises nothing,
\* whatever its exception argument, and changes nothing of the interface.
C6_CloseNoFactory ==
    [][\A self \in 1..Len(ifaces) :
          (ret'.call.op = "close" /\ ret'.call.self = self
             /\ ifaces[self].scoped_session = None)
          => /\ ret'.exc = NoExc
             /\ ifaces' = ifaces
             /\ engines' = engines
             /\ scopeds' = scopeds
             /\ sessions' = sessions]_vars

C6_Witness ==
    /\ ret.call.op = "close"
    /\ ret.call.arg = "Error"
    /\ ifaces[ret.call.self].scoped_session = None
    /\ ifaces[ret.call.self].engine = None
    /\ ret.exc = NoExc

\* C3: once a context has been torn down, no later context of any thread
\* obtains, through app.db.session, a session that the torn-down context used.
C3_NoSessionAfterTeardown ==
    \A t \in Threads : ctx[t] # None => used[t] \cap torn = {}

C3_Witness ==
    \E t \in Threads :
        /\ ctx[t] # None
        /\ \E m \in used[t], n \in torn : sessions[m].bind = sessions[n].bind

\* C10: two requests in progress never hold the same session, the reads of
\* session within one context all yield one session, and the teardown of one
\* context removes that context's session and no other thread's.
C10_SessionPerContext ==
    /\ [](\A t \in Threads, u \in Threads :
             /\ Cardinality(used[t]) <= 1
             /\ (t # u /\ ctx[t] # None /\ ctx[u] # None)
                => used[t] \cap used[u] = {})
    /\ [][ret'.call.op = "pop"
          => \A s \in 1..Len(scopeds), u \in Threads :
                /\ u # ret'.call.thread
                   => scopeds'[s].registry[u] = scopeds[s].registry[u]
                /\ (u = ret'.call.thread
                      /\ s = ifaces[apps[ret'.call.app].db].scoped_session)
                   => scopeds'[s].registry[u] = None]_vars

C10_Witness ==
    \E t \in Threads, u \in Threads :
        /\ t # u
        /\ ctx[t] # None
        /\ ctx[t] = ctx[u]
        /\ used[t] # {}
        /\ used[u] # {}
        /\ ret.call.op = "session"
        /\ ret.call.thread = t
        /\ ret.value \in used[t]
        /\ Len(sessions) = 2

\* The rows of a wrapped function's body, in the database of application app.
RowsAt(app, body) ==
    {<<engines[ifaces[apps[app].db].engine].url, r>> : r \in body.rows}

\* The rows a read through session n sees.
Visible(n) ==
    {p \in data : p[1] = engines[sessions[n].bind].url}
    \cup {<<engines[sessions[n].bind].url, r>> : r \in sessions[n].pending}

\* C2: a db_transaction function runs its body inside a transaction begun on
\* the session of the active application's interface; when the body returns
\* the transaction is committed and the body's value returned; when the body
\* raises the transaction is rolled back, no row the body wrote is visible to
\* a read, and the body's exception reaches the caller.
C2_CommitOrRollback ==
    [][ret'.call.op = "db_transaction"
       => LET body == ret'.call.arg
              app == ret'.call.app
              t == ret'.call.thread
              ran == \E k \in 1..Len(ret'.log) : ret'.log[k] = "func"
          IN /\ ~ran => data' = data
             /\ ran =>
                  LET n == scopeds'[ifaces[apps[app].db].scoped_session]
                               .registry[t]
                  IN /\ app # None
                     /\ n # None
                     /\ ret'.log[1] = "begin"
                     /\ ret'.log[2] = "func"
                     /\ ~sessions'[n].in_transaction
                     /\ sessions'[n].pending = {}
                     /\ body.kind = "return"
                        => /\ ret'.log = <<"begin", "func", "commit">>
                           /\ ret'.exc = NoExc
                           /\ ret'.value = body.result
                           /\ data' = data \cup RowsAt(app, body)
                     /\ body.kind # "return"
                        => /\ ret'.log = <<"begin", "func", "rollback">>
                           /\ ret'.exc = (IF body.kind = "raise"
                                          THEN "BodyError"
                                          ELSE "InvalidRequestError")
                           /\ data' = data
                           /\ \A m \in 1..Len(sessions') :
                                 Visible(m)' \cap RowsAt(app, body) = {}]_vars

C2_Witness ==
    /\ ret.call.op = "db_transaction"
    /\ ret.call.arg.kind = "raise"
    /\ ret.call.arg.rows # {}
    /\ ret.exc = "BodyError"
    /\ ret.log = <<"begin", "func", "rollback">>
    /\ data # {}
    /\ RowsAt(ret.call.app, ret.call.arg) \cap data = {}

\* C9: the pragma hook has run exactly once on every physical connection,
\* however many statements the connection has executed, and foreign keys were
\* on when the connection executed its first statement.
C9_PragmaOncePerConnection ==
    \A c \in 1..Len(conns) :
        /\ conns[c].pragma_runs = 1
        /\ conns[c].foreign_keys
        /\ conns[c].queries > 0 => conns[c].fk_at_first_query

C9_Witness ==
    \E c \in 1..Len(conns), d \in 1..Len(conns) :
        /\ c # d
        /\ conns[c].engine = conns[d].engine
        /\ conns[c].queries >= 2
        /\ ret.call.op = "checkout"
        /\ ret.call.arg = c

====
